---- MODULE Spec2Model ----
(***************************************************************************)
(* Model of debank_badge_claimer: src/main.py (the dispatcher) and         *)
(* src/debank/debank.py (session client, login, worker loop).              *)
(*                                                                         *)
(* The program runs on one asyncio event loop.  A task runs from one       *)
(* suspension point to the next without interruption; the loop's ready     *)
(* queue is FIFO.  `ready` is that queue, its head is the running task.    *)
(* Remote calls and asyncio.sleep suspend the caller; IOReady puts it back *)
(* on the ready queue; the response is drawn when the task resumes.        *)
(***************************************************************************)
EXTENDS Integers, Sequences, FiniteSets, TLC

\* ------------------------------------------------------------------ bounds
\* Largest number of lines of accounts.txt.
MaxAccounts == 3
\* Number of badge ids the remote service knows.
MaxBadges == 2
\* Longest badge list badge_list() is applied to on its own.
MaxCatalogLen == 3

\* The worker loops main gathers: main.py gathers range(5); the model runs a
\* pool of two, the smallest in which loops interleave.
Workers == { 1, 2 }
Accounts == 1..MaxAccounts

\* ------------------------------------------------------------------ input file
\* A line of accounts.txt is a sequence of tokens; ":" is the separator.
\* kA is a well-formed private key, p:p a well-formed proxy URL.
LineKinds ==
  { <<"kA">>, <<"kA", ":", "p", ":", "p">>, <<"junk">>, <<"kA", ":", "junk">> }

NoneValue == <<"None">>

RECURSIVE FirstColon(_, _)
FirstColon(s, i) ==
  IF i > Len(s) THEN 0 ELSE IF s[i] = ":" THEN i ELSE FirstColon(s, i + 1)

\* account.split(":", maxsplit=1) if ":" in account else [account, None]
format_account(line) ==
  LET c == FirstColon(line, 1) IN
  IF c > 0
    THEN [private_key |-> SubSeq(line, 1, c - 1), proxy |-> SubSeq(line, c + 1, Len(line))]
    ELSE [private_key |-> line, proxy |-> NoneValue]

\* Account.from_key accepts only a well-formed private key.
ValidKey(k) == k = <<"kA">>

\* account.address (checksummed, mixed case) of a valid key.
Address(k) == "0xAbC1"

\* str.lower on the addresses of the model.
Lower(a) == IF a = "0xAbC1" THEN "0xabc1" ELSE a

\* AsyncClient(proxies={"all://": proxy} if proxy else None): None and the
\* empty string give no proxy, a malformed proxy URL makes the constructor raise.
ValidProxy(p) == p \in { NoneValue, <<>>, <<"p", ":", "p">> }

\* ------------------------------------------------------------------ responses
\* The data field a caller reads: present with a value, or absent.
Present(v) == [has |-> TRUE, val |-> v]
Absent(dflt) == [has |-> FALSE, val |-> dflt]

\* A response: HTTP status, the kind of its body (not JSON, a JSON scalar, a
\* JSON array, a JSON object), whether the body holds "error_msg" (as a key of
\* the object, as an element of the array), the error_msg value, and the value
\* of the data field the caller reads.
Response(st, kind, err, msg, data) ==
  [status |-> st, kind |-> kind, err |-> err, msg |-> msg, data |-> data]

Bodies(msgs, vals, dflt) ==
  LET fields == { Present(v) : v \in vals } \cup { Absent(dflt) } IN
  { Response(0, "notjson", FALSE, "", Absent(dflt)),
    Response(0, "scalar", FALSE, "", Absent(dflt)) }
  \cup { Response(0, "array", e, "", Absent(dflt)) : e \in BOOLEAN }
  \cup { Response(0, "object", FALSE, "", d) : d \in fields }
  \cup { Response(0, "object", TRUE, m, d) : m \in msgs, d \in fields }

Responses(statuses, msgs, vals, dflt) ==
  { [b EXCEPT !.status = s] : s \in statuses, b \in Bodies(msgs, vals, dflt) }

\* response.text: the raw body.
Text(r) == <<r.kind, r.err, r.msg, r.data>>

Raise(exc, msg) == [tag |-> "raise", exc |-> exc, msg |-> msg, value |-> <<>>]
Return(v) == [tag |-> "return", exc |-> "", msg |-> <<>>, value |-> v]

\* The outcome of a transport call: a response, or a network failure.
NoResp == Response(0, "none", FALSE, "", Absent(""))
NetFail == [ok |-> FALSE, resp |-> NoResp]
Transport(rs) == {NetFail} \cup { [ok |-> TRUE, resp |-> r] : r \in rs }

\* ---- mutants of validate_response
validate_response_4xx(r) ==
  IF r.status >= 400 THEN Raise("DebankError", <<"Debank return", Text(r)>>)
  ELSE IF r.kind = "notjson" THEN Raise("JSONDecodeError", <<>>)
  ELSE IF r.kind = "scalar" THEN Raise("TypeError", <<>>)
  ELSE IF r.err THEN
    IF r.kind = "object" THEN Raise("DebankError", <<"Debank return", r.msg>>)
    ELSE Raise("TypeError", <<>>)
  ELSE Return(r)

validate_response_noerr(r) ==
  IF r.status # 200 THEN Raise("DebankError", <<"Debank return", Text(r)>>)
  ELSE IF r.kind = "notjson" THEN Raise("JSONDecodeError", <<>>)
  ELSE IF r.kind = "scalar" THEN Raise("TypeError", <<>>)
  ELSE Return(r)

validate_response_text(r) ==
  IF r.status # 200 THEN Raise("DebankError", <<"Debank return", Text(r)>>)
  ELSE IF r.kind = "notjson" THEN Raise("JSONDecodeError", <<>>)
  ELSE IF r.kind = "scalar" THEN Raise("TypeError", <<>>)
  ELSE IF r.err THEN
    IF r.kind = "object" THEN Raise("DebankError", <<"Debank return", Text(r)>>)
    ELSE Raise("TypeError", <<>>)
  ELSE Return(r)

\* Debank.validate_response
validate_response(r) ==
  IF r.status # 200 THEN Raise("DebankError", <<"Debank return", Text(r)>>)
  ELSE IF r.kind = "notjson" THEN Raise("JSONDecodeError", <<>>)
  ELSE IF r.kind = "scalar" THEN Raise("TypeError", <<>>)
  ELSE IF r.err THEN
    IF r.kind = "object" THEN Raise("DebankError", <<"Debank return", r.msg>>)
    ELSE Raise("TypeError", <<>>)
  ELSE Return(r)

\* An endpoint method of Debank: validate_response(await self.client.<verb>(...))
Endpoint(x) ==
  IF ~x.ok THEN Raise("ConnectError", <<>>) ELSE validate_response(x.resp)

\* response.json()["data"][field] of a response
DataField(r) ==
  IF r.kind = "notjson" THEN Raise("JSONDecodeError", <<>>)
  ELSE IF r.kind # "object" THEN Raise("TypeError", <<>>)
  ELSE IF ~r.data.has THEN Raise("KeyError", <<>>)
  ELSE Return(r.data.val)

\* A method followed by the caller's read of the data field.
EndpointData(x) ==
  LET o == Endpoint(x) IN IF o.tag = "raise" THEN o ELSE DataField(o.value)

\* The endpoints whose body is read although validate_response rejects it.
Unvalidated(ep, r) == IF validate_response(r).tag = "return" THEN {} ELSE {ep}

\* ------------------------------------------------------------------ badge catalog
\* The name the remote service gives a badge id.
BadgeName(id) == IF id = 1 THEN "Genesis" ELSE "Badge"

RECURSIVE SeqsUpTo(_, _)
SeqsUpTo(S, n) ==
  IF n = 0 THEN { <<>> }
  ELSE LET shorter == SeqsUpTo(S, n - 1) IN
       shorter \cup { Append(s, x) : s \in { t \in shorter : Len(t) = n - 1 }, x \in S }

\* The badge lists the remote service may return: up to two entries, in any
\* order of ids, and ids may repeat.
BadgeLists ==
  SeqsUpTo({ [id |-> i, name |-> BadgeName(i)] : i \in 1..MaxBadges }, 2)

DictPutAppend(d, k, v) == Append(d, [id |-> k, name |-> v])

\* d[k] = v on a dict kept as a sequence of entries in insertion order.
DictPut(d, k, v) ==
  IF \E i \in DOMAIN d : d[i].id = k
    THEN [i \in DOMAIN d |-> IF d[i].id = k THEN [id |-> k, name |-> v] ELSE d[i]]
    ELSE Append(d, [id |-> k, name |-> v])

\* {badge["id"]: badge["name"] for badge in badges}
RECURSIVE DictOf(_)
DictOf(badges) ==
  IF badges = <<>> THEN <<>>
  ELSE LET n == Len(badges) IN DictPut(DictOf(SubSeq(badges, 1, n - 1)), badges[n].id, badges[n].name)

\* badge_list(): one anonymous GET, the body read without validate_response.
badge_list(x) ==
  IF ~x.ok THEN Raise("ConnectError", <<>>)
  ELSE LET o == DataField(x.resp) IN
       IF o.tag = "raise" THEN o ELSE Return(DictOf(o.value))

\* ------------------------------------------------------------------ remote service
\* HTTP statuses the remote service answers with in the run.
RunStatuses == { 200, 500 }
ErrorMsgs == { "e1" }
\* The challenge text and the session id the service issues for an address.
TextFor(addr) == << "text", addr >>
SidFor(addr) == << "sid", addr >>

BadgeListResults == Transport(Responses(RunStatuses, ErrorMsgs, BadgeLists, <<>>))
SignResults(addr) == Transport(Responses(RunStatuses, ErrorMsgs, { TextFor(addr) }, <<>>))
LoginResults(addr) == Transport(Responses(RunStatuses, ErrorMsgs, { SidFor(addr) }, <<>>))
CanMintResults == Transport(Responses(RunStatuses, ErrorMsgs, { "true", "false" }, ""))
MintResults == Transport(Responses(RunStatuses, ErrorMsgs, { "ok" }, ""))

\* ------------------------------------------------------------------ state
VARIABLES
  nput,       \* number of pairs main put on the queue
  q,          \* the asyncio.Queue of main: the pairs (by line number) in insertion order
  mainpc,     \* where main() is
  BADGE_IDS,  \* the catalog: entries [id, name] in mapping order
  fetches,    \* number of requests to the badge-list endpoint
  badreads,   \* endpoints whose body was read from a response validate_response rejects
  ready,      \* the event loop's FIFO of ready tasks and callbacks
  loopst,     \* "running" until asyncio.run has shut the loop down
  nfinished,  \* gather: number of children done
  outer,      \* gather: state of the future main awaits
  pc,         \* per worker loop: where it is
  item,       \* per worker loop: the pair it dequeued last (the proxy until the client is built)
  debank,     \* per worker loop: the client bound to the local `debank`
  bidx,       \* per worker loop: position in BADGE_IDS.items()
  hist,       \* per worker loop: requests, responses, log lines of the current pair and badge
  deq,        \* per pair: number of times it was dequeued
  abandoned,  \* per worker loop still running: a handler of the loop abandoned a pair
  conn,       \* per pair: the connection of the client constructed for it
  closes,     \* per pair: number of completed client.aclose() calls
  vin,        \* validate_response / badge_list under test: the response
  vout        \* validate_response / badge_list under test: the outcomes of successive calls

vars == << nput, q, mainpc, BADGE_IDS, fetches, badreads, ready, loopst, nfinished,
           outer, pc, item, debank, bidx, hist, deq, abandoned, conn, closes, vin, vout >>

mainVars == << nput, q, mainpc, BADGE_IDS, fetches, badreads, ready, loopst, nfinished,
               outer, pc, item, debank, bidx, hist, deq, abandoned, conn, closes >>

NoItem == [id |-> 0, private_key |-> <<>>, proxy |-> NoneValue]
NoHeader == [set |-> FALSE, session_id |-> <<>>, user_addr |-> "", wallet_type |-> "", is_verified |-> FALSE]
NoClient == [c |-> 0, hdr |-> NoHeader]

WTask(w) == <<"w", w>>
CbTask(w) == <<"cb", w>>
CloseTask(c) == <<"close", c>>
MainTask == <<"main", 0>>
StopTask == <<"stop", 0>>

Running(t) == ready # <<>> /\ Head(ready) = t
InReady(t) == \E i \in DOMAIN ready : ready[i] = t

WaitStates == { "sign_wait", "submit_wait", "canmint_wait", "mint_wait", "sleep_wait" }

Ev(k, arg, h) == [k |-> k, arg |-> arg, hdr |-> h]

\* What came back from a call: no response, or its status and whether its
\* body is an object holding error_msg.
Got(x) ==
  Ev("response",
     IF x.ok THEN << x.resp.status, x.resp.kind = "object" /\ x.resp.err >> ELSE <<>>, x.ok)

MainInit ==
  /\ nput = 0
  /\ q = <<>>
  /\ mainpc = "start"
  /\ BADGE_IDS = <<>>
  /\ fetches = 0
  /\ badreads = {}
  /\ ready = <<>>
  /\ loopst = "running"
  /\ nfinished = 0
  /\ outer = "pending"
  /\ pc = [w \in Workers |-> "start"]
  /\ item = [w \in Workers |-> NoItem]
  /\ debank = [w \in Workers |-> NoClient]
  /\ bidx = [w \in Workers |-> 0]
  /\ hist = [w \in Workers |-> <<>>]
  /\ deq = [a \in Accounts |-> 0]
  /\ abandoned = [w \in Workers |-> FALSE]
  /\ conn = [a \in Accounts |-> "none"]
  /\ closes = [a \in Accounts |-> 0]

Init ==
  /\ MainInit
  /\ vin = NoResp
  /\ vout = <<>>

\* ------------------------------------------------------------------ main
MainStartReversed ==
  /\ mainpc = "start"
  /\ \E n \in 0..MaxAccounts :
       /\ q' = [i \in 1..n |-> n - i + 1]
       /\ nput' = n
  /\ fetches' = fetches + 1
  /\ mainpc' = "fetch_wait"
  /\ UNCHANGED << BADGE_IDS, badreads, ready, loopst, nfinished, outer, pc, item,
                  debank, bidx, hist, deq, abandoned, conn, closes, vin, vout >>

\* main(): read accounts.txt, format the lines, put the pairs on the queue
\* in order, then await badge_list() (its GET is the first suspension).
\* The queue holds the pairs by line number; the text of a line is an input
\* of the run that nothing reads before its pair is dequeued, and it is
\* drawn there (Get).
MainStart ==
  /\ mainpc = "start"
  /\ \E n \in 0..MaxAccounts :
       /\ q' = [i \in 1..n |-> i]
       /\ nput' = n
  /\ fetches' = fetches + 1
  /\ mainpc' = "fetch_wait"
  /\ UNCHANGED << BADGE_IDS, badreads, ready, loopst, nfinished, outer, pc, item,
                  debank, bidx, hist, deq, abandoned, conn, closes, vin, vout >>

LaunchedAlways(o) == [w \in Workers |-> WTask(w)]

\* asyncio.gather(*[worker(q, BADGE_IDS) for _ in range(...)]): reached only when
\* badge_list() returned; the tasks are made ready in creation order.
LaunchedTasks(o) == IF o.tag = "return" THEN [w \in Workers |-> WTask(w)] ELSE <<>>

\* badge_list() resumes with the transport's outcome: the catalog is bound and
\* the workers gathered, or the exception leaves main and asyncio.run.
BadgeListReturn ==
  /\ mainpc = "fetch_wait"
  /\ \E x \in BadgeListResults :
       LET o == badge_list(x) IN
       /\ ready' = LaunchedTasks(o)
       /\ IF o.tag = "return"
            THEN /\ BADGE_IDS' = o.value
                 /\ badreads' = badreads \cup Unvalidated("badge_list", x.resp)
                 /\ mainpc' = "gather"
                 /\ loopst' = loopst
            ELSE /\ mainpc' = "fetch_failed"
                 /\ loopst' = "closed"
                 /\ UNCHANGED << BADGE_IDS, badreads >>
  /\ UNCHANGED << nput, q, fetches, nfinished, outer, pc, item, debank, bidx, hist, deq,
                  abandoned, conn, closes, vin, vout >>

\* gather's _done_callback for child w.
GatherCb(w) ==
  /\ Running(CbTask(w))
  /\ nfinished' = nfinished + 1
  /\ IF outer # "pending" THEN /\ outer' = outer
                               /\ ready' = Tail(ready)
     ELSE IF pc[w] = "crashed" THEN /\ outer' = "exception"
                                    /\ ready' = Append(Tail(ready), MainTask)
     ELSE IF nfinished + 1 = Cardinality(Workers) THEN /\ outer' = "result"
                                             /\ ready' = Append(Tail(ready), MainTask)
     ELSE /\ outer' = outer
          /\ ready' = Tail(ready)
  /\ UNCHANGED << nput, q, mainpc, BADGE_IDS, fetches, badreads, loopst, pc, item, debank,
                  bidx, hist, deq, abandoned, conn, closes, vin, vout >>

\* main resumes from the gather: it returns, or re-raises the child's exception.
MainResume ==
  /\ Running(MainTask)
  /\ mainpc = "gather"
  /\ mainpc' = IF outer = "exception" THEN "raised" ELSE "returned"
  /\ ready' = Append(Tail(ready), StopTask)
  /\ UNCHANGED << nput, q, BADGE_IDS, fetches, badreads, loopst, nfinished, outer, pc, item,
                  debank, bidx, hist, deq, abandoned, conn, closes, vin, vout >>

\* asyncio.run leaves run_until_complete and cancels every task not done: a
\* worker loop suspended in a call gets CancelledError, which its handlers do
\* not catch; a close task not yet run never runs.
Stop ==
  /\ Running(StopTask)
  /\ loopst' = "closed"
  /\ pc' = [w \in Workers |-> IF pc[w] \in { "done", "crashed" } THEN pc[w] ELSE "cancelled"]
  /\ ready' = <<>>
  /\ UNCHANGED << nput, q, mainpc, BADGE_IDS, fetches, badreads, nfinished, outer, item,
                  debank, bidx, hist, deq, abandoned, conn, closes, vin, vout >>

\* Debank.__del__ of the client of pair c ran with the loop running: the task
\* it created runs self.client.aclose().
CloseRun(c) ==
  /\ Running(CloseTask(c))
  /\ conn' = [conn EXCEPT ![c] = "closed"]
  /\ closes' = [closes EXCEPT ![c] = @ + 1]
  /\ ready' = Tail(ready)
  /\ UNCHANGED << nput, q, mainpc, BADGE_IDS, fetches, badreads, loopst, nfinished, outer,
                  pc, item, debank, bidx, hist, deq, abandoned, vin, vout >>

\* ------------------------------------------------------------------ worker loop
fixedVars == << nput, mainpc, BADGE_IDS, fetches, loopst, nfinished, outer, vin, vout >>

\* The close task Debank.__del__ creates when the client object is released.
DelTasks(cl) == IF cl.c = 0 THEN <<>> ELSE << CloseTask(cl.c) >>

AfterCheckYield(r, w) == Append(Tail(r), WTask(w))

\* The ready queue after `while not q.empty()` found a pair: no suspension
\* point lies between the test and q.get(), the task keeps running.
AfterCheck(r, w) == r

\* while not q.empty(): the loop is left when the queue is empty; the worker
\* returns, its frame releases `debank`, and gather's callback is scheduled.
Check(w) ==
  /\ Running(WTask(w))
  /\ pc[w] \in { "start", "loop" }
  /\ IF q = <<>>
       THEN /\ pc' = [pc EXCEPT ![w] = "done"]
            /\ debank' = [debank EXCEPT ![w] = NoClient]
            /\ item' = [item EXCEPT ![w] = NoItem]
            /\ hist' = [hist EXCEPT ![w] = <<>>]
            /\ abandoned' = [abandoned EXCEPT ![w] = FALSE]
            /\ ready' = Tail(ready) \o DelTasks(debank[w]) \o << CbTask(w) >>
       ELSE /\ pc' = [pc EXCEPT ![w] = "get"]
            /\ ready' = AfterCheck(ready, w)
            /\ UNCHANGED << debank, item, hist, abandoned >>
  /\ UNCHANGED << fixedVars, q, badreads, bidx, deq, conn, closes >>

\* The pair main built from line i of accounts.txt.
Pair(i, line) ==
  [id |-> i, private_key |-> format_account(line).private_key,
   proxy |-> format_account(line).proxy]

\* private_key, proxy = await q.get(): returns at once when a pair is queued,
\* waits for a put otherwise.
Get(w) ==
  /\ Running(WTask(w))
  /\ pc[w] = "get"
  /\ IF q = <<>>
       THEN /\ pc' = [pc EXCEPT ![w] = "blocked"]
            /\ ready' = Tail(ready)
            /\ UNCHANGED << q, item, hist, deq, abandoned >>
       ELSE /\ \E line \in LineKinds :
                 item' = [item EXCEPT ![w] = Pair(Head(q), line)]
            /\ q' = Tail(q)
            /\ deq' = [deq EXCEPT ![Head(q)] = @ + 1]
            /\ UNCHANGED abandoned
            /\ hist' = [hist EXCEPT ![w] = <<>>]
            /\ pc' = [pc EXCEPT ![w] = "from_key"]
            /\ UNCHANGED ready
  /\ UNCHANGED << fixedVars, badreads, debank, bidx, conn, closes >>

\* An exception leaves worker(): the task is done with that exception, its
\* traceback keeps the frame and the client bound to `debank`.
Crash(w) ==
  /\ pc' = [pc EXCEPT ![w] = "crashed"]
  /\ abandoned' = abandoned
  /\ ready' = Append(Tail(ready), CbTask(w))

\* account = Account.from_key(private_key), outside the try.
FromKey(w) ==
  /\ Running(WTask(w))
  /\ pc[w] = "from_key"
  /\ IF ValidKey(item[w].private_key)
       THEN /\ pc' = [pc EXCEPT ![w] = "construct"]
            /\ UNCHANGED << abandoned, ready >>
       ELSE Crash(w)
  /\ UNCHANGED << fixedVars, q, badreads, item, debank, bidx, hist, deq, conn, closes >>

ConstructReuse(w) ==
  /\ Running(WTask(w))
  /\ pc[w] = "construct"
  /\ IF ValidProxy(item[w].proxy)
       THEN /\ debank' = [debank EXCEPT ![w] =
                            IF @.c # 0 THEN @ ELSE [c |-> item[w].id, hdr |-> NoHeader]]
            /\ item' = [item EXCEPT ![w].proxy = NoneValue]
            /\ conn' = [conn EXCEPT ![debank'[w].c] = "open"]
            /\ ready' = ready
            /\ pc' = [pc EXCEPT ![w] = "login"]
            /\ UNCHANGED abandoned
       ELSE /\ Crash(w)
            /\ UNCHANGED << debank, conn, item >>
  /\ UNCHANGED << fixedVars, q, badreads, bidx, hist, deq, closes >>

\* debank = DebankWorker(proxy), outside the try: the new client is built,
\* then the previous one is released and its __del__ schedules the close.
Construct(w) ==
  /\ Running(WTask(w))
  /\ pc[w] = "construct"
  /\ IF ValidProxy(item[w].proxy)
       THEN /\ debank' = [debank EXCEPT ![w] = [c |-> item[w].id, hdr |-> NoHeader]]
            /\ item' = [item EXCEPT ![w].proxy = NoneValue]
            /\ conn' = [conn EXCEPT ![item[w].id] = "open"]
            /\ ready' = ready \o DelTasks(debank[w])
            /\ pc' = [pc EXCEPT ![w] = "login"]
            /\ UNCHANGED abandoned
       ELSE /\ Crash(w)
            /\ UNCHANGED << debank, conn, item >>
  /\ UNCHANGED << fixedVars, q, badreads, bidx, hist, deq, closes >>

UserAddr(w) == Lower(Address(item[w].private_key))

\* await debank.login(account): sign_v2(account.address.lower()) is requested.
LoginCall(w) ==
  /\ Running(WTask(w))
  /\ pc[w] = "login"
  /\ hist' = [hist EXCEPT ![w] = Append(@, Ev("sign_v2", << UserAddr(w) >>, debank[w].hdr.set))]
  /\ pc' = [pc EXCEPT ![w] = "sign_wait"]
  /\ ready' = Tail(ready)
  /\ UNCHANGED << fixedVars, q, badreads, item, debank, bidx, deq, abandoned, conn, closes >>

\* The awaited call or sleep of a suspended worker loop completed.
IOReady(w) ==
  /\ loopst = "running"
  /\ pc[w] \in WaitStates
  /\ ~InReady(WTask(w))
  /\ ready' = Append(ready, WTask(w))
  /\ UNCHANGED << fixedVars, q, badreads, pc, item, debank, bidx, hist, deq, abandoned, conn,
                  closes >>

HandleRetry(w, exc, h) ==
  /\ hist' = [hist EXCEPT ![w] =
                Append(h, Ev(IF exc = "DebankError" THEN "log.DebankError" ELSE "log.Error",
                             <<>>, debank[w].hdr.set))]
  /\ abandoned' = [abandoned EXCEPT ![w] = TRUE]
  /\ bidx' = [bidx EXCEPT ![w] = 0]
  /\ pc' = [pc EXCEPT ![w] = "login"]
  /\ ready' = ready

\* except DebankError / except Exception: log, leave the try, next loop test.
Handle(w, exc, h) ==
  /\ hist' = [hist EXCEPT ![w] =
                Append(h, Ev(IF exc = "DebankError" THEN "log.DebankError" ELSE "log.Error",
                             <<>>, debank[w].hdr.set))]
  /\ abandoned' = [abandoned EXCEPT ![w] = TRUE]
  /\ bidx' = [bidx EXCEPT ![w] = 0]
  /\ pc' = [pc EXCEPT ![w] = "loop"]
  /\ ready' = ready

\* The events of login: the two requests and their responses.
LoginPart(h) == SubSeq(h, 1, 4)

ForStepOffByOne(w, i, h, hd) ==
  IF i + 1 > Len(BADGE_IDS)
    THEN /\ hist' = [hist EXCEPT ![w] = h]
         /\ abandoned' = abandoned
         /\ pc' = [pc EXCEPT ![w] = "loop"]
         /\ bidx' = [bidx EXCEPT ![w] = 0]
         /\ ready' = ready
    ELSE /\ hist' = [hist EXCEPT ![w] =
                       Append(LoginPart(h), Ev("can_mint", << BADGE_IDS[i + 1].id >>, hd))]
         /\ abandoned' = abandoned
         /\ pc' = [pc EXCEPT ![w] = "canmint_wait"]
         /\ bidx' = [bidx EXCEPT ![w] = i + 1]
         /\ ready' = Tail(ready)

\* for id, name in BADGE_IDS.items(): the i-th badge's can-mint request, or
\* the end of the for loop and of the try.  hist keeps login's events and
\* those of the badge being handled.
ForStep(w, i, h, hd) ==
  IF i > Len(BADGE_IDS)
    THEN /\ hist' = [hist EXCEPT ![w] = h]
         /\ abandoned' = abandoned
         /\ pc' = [pc EXCEPT ![w] = "loop"]
         /\ bidx' = [bidx EXCEPT ![w] = 0]
         /\ ready' = ready
    ELSE /\ hist' = [hist EXCEPT ![w] =
                       Append(LoginPart(h), Ev("can_mint", << BADGE_IDS[i].id >>, hd))]
         /\ abandoned' = abandoned
         /\ pc' = [pc EXCEPT ![w] = "canmint_wait"]
         /\ bidx' = [bidx EXCEPT ![w] = i]
         /\ ready' = Tail(ready)

\* login resumes from sign_v2: the text is signed and login_v2 requested.
SignReturn(w) ==
  /\ Running(WTask(w))
  /\ pc[w] = "sign_wait"
  /\ \E x \in SignResults(UserAddr(w)) :
       LET o == EndpointData(x) IN
       IF o.tag = "raise"
         THEN /\ Handle(w, o.exc, Append(hist[w], Got(x)))
              /\ UNCHANGED badreads
         ELSE /\ hist' = [hist EXCEPT ![w] =
                            Append(Append(@, Got(x)), Ev("login_v2",
                                         << UserAddr(w), item[w].private_key, o.value >>,
                                         debank[w].hdr.set))]
              /\ badreads' = badreads \cup Unvalidated("sign_v2", x.resp)
              /\ pc' = [pc EXCEPT ![w] = "submit_wait"]
              /\ ready' = Tail(ready)
              /\ UNCHANGED << abandoned, bidx >>
  /\ UNCHANGED << fixedVars, q, item, debank, deq, conn, closes >>

AccountHeaderMixed(w, sid) ==
  [set |-> TRUE, session_id |-> sid, user_addr |-> Address(item[w].private_key),
   wallet_type |-> "metamask", is_verified |-> TRUE]

\* The account header login attaches (random_at and random_id left out).
AccountHeader(w, sid) ==
  [set |-> TRUE, session_id |-> sid, user_addr |-> UserAddr(w),
   wallet_type |-> "metamask", is_verified |-> TRUE]

LoginReturnSwallow(w) ==
  /\ Running(WTask(w))
  /\ pc[w] = "submit_wait"
  /\ \E x \in LoginResults(UserAddr(w)) :
       LET o == EndpointData(x) IN
       IF o.tag = "raise"
         THEN /\ ForStep(w, 1, Append(hist[w], Got(x)), debank[w].hdr.set)
              /\ UNCHANGED << badreads, debank >>
         ELSE /\ debank' = [debank EXCEPT ![w].hdr = AccountHeader(w, o.value)]
              /\ badreads' = badreads \cup Unvalidated("login_v2", x.resp)
              /\ ForStep(w, 1, Append(hist[w], Got(x)), TRUE)
  /\ UNCHANGED << fixedVars, q, item, deq, conn, closes >>

\* login resumes from login_v2: the header is attached, the for loop starts.
LoginReturn(w) ==
  /\ Running(WTask(w))
  /\ pc[w] = "submit_wait"
  /\ \E x \in LoginResults(UserAddr(w)) :
       LET o == EndpointData(x) IN
       IF o.tag = "raise"
         THEN /\ Handle(w, o.exc, Append(hist[w], Got(x)))
              /\ UNCHANGED << badreads, debank >>
         ELSE /\ debank' = [debank EXCEPT ![w].hdr = AccountHeader(w, o.value)]
              /\ badreads' = badreads \cup Unvalidated("login_v2", x.resp)
              /\ ForStep(w, 1, Append(hist[w], Got(x)), TRUE)
  /\ UNCHANGED << fixedVars, q, item, deq, conn, closes >>

ShouldMintAlways(v) == TRUE

\* if is_can_mint:
ShouldMint(v) == v = "true"

Badge(w) == BADGE_IDS[bidx[w]]

\* is_can_mint_bage resumes: mint requested, or the error log and the sleep.
CanMintReturn(w) ==
  /\ Running(WTask(w))
  /\ pc[w] = "canmint_wait"
  /\ \E x \in CanMintResults :
       LET o == EndpointData(x) IN
       IF o.tag = "raise"
         THEN /\ Handle(w, o.exc, Append(hist[w], Got(x)))
              /\ UNCHANGED badreads
         ELSE LET h1 == Append(Append(hist[w], Got(x)),
                               Ev("can_mint=", << Badge(w).id, o.value >>, debank[w].hdr.set))
              IN
              /\ badreads' = badreads \cup Unvalidated("can_mint", x.resp)
              /\ ready' = Tail(ready)
              /\ UNCHANGED << abandoned, bidx >>
              /\ IF ShouldMint(o.value)
                   THEN /\ hist' = [hist EXCEPT ![w] =
                                      Append(h1, Ev("mint", << Badge(w).id >>, debank[w].hdr.set))]
                        /\ pc' = [pc EXCEPT ![w] = "mint_wait"]
                   ELSE /\ hist' = [hist EXCEPT ![w] =
                                      Append(Append(h1, Ev("log.error", << Badge(w).name >>, debank[w].hdr.set)),
                                             Ev("sleep", << Badge(w).id >>, debank[w].hdr.set))]
                        /\ pc' = [pc EXCEPT ![w] = "sleep_wait"]
  /\ UNCHANGED << fixedVars, q, item, debank, deq, conn, closes >>

\* badge_mint resumes: the success log and the sleep.
MintReturn(w) ==
  /\ Running(WTask(w))
  /\ pc[w] = "mint_wait"
  /\ \E x \in MintResults :
       LET o == Endpoint(x) IN
       IF o.tag = "raise"
         THEN Handle(w, o.exc, Append(hist[w], Got(x)))
         ELSE /\ hist' = [hist EXCEPT ![w] =
                            Append(Append(Append(@, Got(x)), Ev("log.success", << Badge(w).name >>, debank[w].hdr.set)),
                                   Ev("sleep", << Badge(w).id >>, debank[w].hdr.set))]
              /\ pc' = [pc EXCEPT ![w] = "sleep_wait"]
              /\ ready' = Tail(ready)
              /\ UNCHANGED << abandoned, bidx >>
  /\ UNCHANGED << fixedVars, q, badreads, item, debank, deq, conn, closes >>

\* asyncio.sleep(2) is over: the next badge.
SleepReturn(w) ==
  /\ Running(WTask(w))
  /\ pc[w] = "sleep_wait"
  /\ ForStep(w, bidx[w] + 1, hist[w], debank[w].hdr.set)
  /\ UNCHANGED << fixedVars, q, badreads, item, debank, deq, conn, closes >>

\* ------------------------------------------------------------------ specification
Next ==
  \/ MainStart
  \/ BadgeListReturn
  \/ MainResume
  \/ Stop
  \/ \E w \in Workers : Check(w)
  \/ \E w \in Workers : Get(w)
  \/ \E w \in Workers : FromKey(w)
  \/ \E w \in Workers : Construct(w)
  \/ \E w \in Workers : LoginCall(w)
  \/ \E w \in Workers : IOReady(w)
  \/ \E w \in Workers : SignReturn(w)
  \/ \E w \in Workers : LoginReturn(w)
  \/ \E w \in Workers : CanMintReturn(w)
  \/ \E w \in Workers : MintReturn(w)
  \/ \E w \in Workers : SleepReturn(w)
  \/ \E w \in Workers : GatherCb(w)
  \/ \E c \in Accounts : CloseRun(c)

Spec == Init /\ [][Next]_vars

\* ------------------------------------------------------------------ validate_response alone
\* The responses validate_response is applied to.
TestStatuses == { 200, 201, 204, 301, 404, 500 }
TestResponses == Responses(TestStatuses, { "e1", "e2" }, { "v" }, "")

ValidateInit ==
  /\ MainInit
  /\ vin \in TestResponses
  /\ vout = <<>>

\* self.validate_response(response)
Validate ==
  /\ vout = <<>>
  /\ vout' = << validate_response(vin) >>
  /\ UNCHANGED << mainVars, vin >>

\* validate_response applied again, to the response the first call returned.
Revalidate ==
  /\ Len(vout) = 1
  /\ vout[1].tag = "return"
  /\ vout' = Append(vout, validate_response(vout[1].value))
  /\ UNCHANGED << mainVars, vin >>

ValidateNext == Validate \/ Revalidate

ValidateSpec == ValidateInit /\ [][ValidateNext]_vars

\* ------------------------------------------------------------------ properties
\* asyncio.run is over.
RunOver == loopst = "closed"

\* main reached the gather: the worker loops were launched.
Launched == mainpc \in { "gather", "returned", "raised" }

\* A worker loop that an exception left, or that asyncio.run cancelled.
Terminated(w) == pc[w] \in { "crashed", "cancelled" }

\* C1: every pair put on the queue is dequeued exactly once over the whole
\* run: never twice, and none is left undequeued when a run whose worker
\* loops were launched is over.
C1_ExactlyOnce ==
  /\ \A a \in Accounts : deq[a] <= 1
  /\ (RunOver /\ Launched) => \A a \in 1..nput : deq[a] = 1

C3_NoErrorAborts ==
  /\ \A w \in Workers : ~Terminated(w)
  /\ mainpc # "raised"

\* C6: a run whose worker loops were launched completes only with the queue
\* empty and every worker loop returned.
C6_CompletesDrained ==
  (RunOver /\ Launched) => (q = <<>> /\ \A w \in Workers : pc[w] = "done")

\* C7: when the run is over, every client constructed for a dequeued pair
\* has had its connection closed exactly once.
C7_ClosedOnce ==
  /\ \A c \in Accounts : closes[c] <= 1
  /\ RunOver => \A c \in Accounts : conn[c] # "none" => closes[c] = 1

\* C8: no endpoint's body is read from a response validate_response rejects
\* (every response is validated before a field of it is used).
C8_AllValidated == badreads = {}

\* The k-th event of worker loop w's history is of kind kind.
Is(w, k, kind) == k \in DOMAIN hist[w] /\ hist[w][k].k = kind

\* The k-th event is a response whose body is an object holding error_msg.
IsErrorMsg(w, k) ==
  /\ Is(w, k, "response")
  /\ Len(hist[w][k].arg) = 2
  /\ hist[w][k].arg[2]

\* The mint request at k follows, with nothing in between, the response to
\* the eligibility query for the same badge, which returned true.
MintAfterTrue(w, k) ==
  /\ Is(w, k - 1, "can_mint=")
  /\ hist[w][k - 1].arg = << hist[w][k].arg[1], "true" >>
  /\ Is(w, k - 2, "response")
  /\ Is(w, k - 3, "can_mint")
  /\ hist[w][k - 3].arg = << hist[w][k].arg[1] >>

\* The eligibility result false at k is followed by the error log and the
\* sleep only: no mint request, no handler.
FalseIsLogged(w, k) ==
  /\ Len(hist[w]) = k + 2
  /\ Is(w, k + 1, "log.error")
  /\ Is(w, k + 2, "sleep")
  /\ pc[w] # "crashed"

\* The catalog holds a badge id once: a badge is queried once per account.
DistinctBadges ==
  \A i, j \in DOMAIN BADGE_IDS : BADGE_IDS[i].id = BADGE_IDS[j].id => i = j

\* The step of worker loop w that follows the sleep goes to the next badge's
\* eligibility query, or ends the for loop after the last badge; no handler
\* runs.
NextBadge(w) ==
  (pc[w] = "sleep_wait" /\ pc'[w] \notin { "sleep_wait", "cancelled" }) =>
    /\ abandoned'[w] = abandoned[w]
    /\ IF bidx[w] < Len(BADGE_IDS)
         THEN /\ pc'[w] = "canmint_wait"
              /\ bidx'[w] = bidx[w] + 1
              /\ hist'[w][Len(hist'[w])].k = "can_mint"
              /\ hist'[w][Len(hist'[w])].arg = << BADGE_IDS[bidx[w] + 1].id >>
         ELSE pc'[w] = "loop"

C4_Safe ==
  \A w \in Workers : \A k \in DOMAIN hist[w] :
    /\ Is(w, k, "mint") => MintAfterTrue(w, k)
    /\ (Is(w, k, "can_mint=") /\ hist[w][k].arg[2] = "false") => FalseIsLogged(w, k)

\* C4: a mint request for badge b is issued only right after the eligibility
\* query for b in the same session returned true; after false no mint for b
\* is issued, the outcome is logged at error level, and the loop goes on
\* with the next badge without raising.
C4_MintOnlyIfEligible ==
  /\ [](C4_Safe /\ DistinctBadges)
  /\ [][\A w \in Workers : NextBadge(w)]_vars

\* An eligibility query returned false, it was logged, and a further badge
\* is still to be handled.
C4_Witness ==
  \E w \in Workers :
    /\ Is(w, 7, "can_mint=") /\ hist[w][7].arg[2] = "false"
    /\ Is(w, 8, "log.error")
    /\ pc[w] = "sleep_wait"
    /\ bidx[w] < Len(BADGE_IDS)

\* The login endpoint (login_v2) answered worker loop w's current account
\* with a body holding error_msg.
LoginErrorMsg(w) == Is(w, 3, "login_v2") /\ IsErrorMsg(w, 4)

C5_Safe ==
  \A w \in Workers : LoginErrorMsg(w) =>
    /\ Len(hist[w]) = 5
    /\ Is(w, 5, "log.DebankError")
    /\ ~debank[w].hdr.set
    /\ abandoned[w]

\* After the failed login the loop test and q.get() follow: with a pair
\* queued, the loop dequeues the pair at the head of the queue.
TakesNext(w) ==
  (LoginErrorMsg(w) /\ q # <<>>) =>
    /\ (pc[w] = "loop" /\ pc'[w] # "loop") => pc'[w] = "get"
    /\ (pc[w] = "get" /\ pc'[w] # "get") =>
         (pc'[w] = "from_key" /\ item'[w].id = Head(q) /\ q' = Tail(q))
    /\ pc[w] \in { "loop", "get" }

\* C5: when the login endpoint returns a body with error_msg set, login
\* raises DebankError (the DebankError handler logs it), no session header
\* is attached to the client, no eligibility or mint request is issued for
\* the account, and the worker loop dequeues the next queued pair.
C5_LoginErrorMsg ==
  /\ []C5_Safe
  /\ [][\A w \in Workers : TakesNext(w)]_vars

\* A login was answered with error_msg and the loop is about to dequeue the
\* next queued pair.
C5_Witness ==
  \E w \in Workers : LoginErrorMsg(w) /\ pc[w] = "get" /\ q # <<>>

\* C9: the badge catalog is fetched exactly once, before any worker loop is
\* launched; if the fetch fails (badge_list raises) the run aborts without
\* launching a worker loop: no pair is dequeued, no request is issued.
C9_FetchOnceFirst ==
  /\ fetches <= 1
  /\ (Launched \/ \E w \in Workers : pc[w] # "start") =>
       (fetches = 1 /\ mainpc \notin { "start", "fetch_wait", "fetch_failed" })
  /\ mainpc = "fetch_failed" =>
       /\ RunOver
       /\ ready = <<>>
       /\ \A w \in Workers : pc[w] = "start" /\ hist[w] = <<>>
       /\ \A a \in Accounts : deq[a] = 0
       /\ Len(q) = nput

\* The fetch failed with pairs on the queue.
C9_Witness == mainpc = "fetch_failed" /\ nput > 0 /\ fetches = 1

\* C10: for every response whose status is not 200, whatever its body,
\* validate_response raises DebankError and returns no value.
C10_Not200Raises ==
  (vout # <<>> /\ vin.status # 200) =>
    (Len(vout) = 1 /\ vout[1].tag = "raise" /\ vout[1].exc = "DebankError")

\* validate_response was applied to a 204 response with a well-formed body
\* without error_msg.
C10_Witness ==
  /\ vout # <<>>
  /\ vin.status = 204
  /\ vin.kind = "object" /\ ~vin.err /\ vin.data.has

\* C11: for every response with status 200 whose decoded body is an object
\* with an error_msg field, validate_response raises DebankError carrying
\* that error_msg value.
C11_ErrorMsgRaises ==
  (vout # <<>> /\ vin.status = 200 /\ vin.kind = "object" /\ vin.err) =>
    /\ Len(vout) = 1
    /\ vout[1].tag = "raise"
    /\ vout[1].exc = "DebankError"
    /\ vout[1].msg = << "Debank return", vin.msg >>

\* validate_response was applied to a 200 response whose body holds
\* error_msg "e2" next to a data field.
C11_Witness ==
  /\ vout # <<>>
  /\ vin.status = 200 /\ vin.kind = "object" /\ vin.err
  /\ vin.msg = "e2" /\ vin.data.has

\* C12: for every response with status 200 whose decoded body holds no
\* error_msg field, validate_response returns that same response, and
\* applied again to the result it returns the same response.
C12_ReturnsUnchanged ==
  (vin.status = 200 /\ vin.kind # "notjson" /\ ~vin.err) =>
    /\ Len(vout) >= 1 => vout[1] = Return(vin)
    /\ Len(vout) >= 2 => vout[2] = Return(vin)

\* Worker loop w's current account completed its login: both requests were
\* answered and the header is attached to the client built for the account.
LoggedIn(w) ==
  /\ Is(w, 3, "login_v2") /\ Is(w, 4, "response")
  /\ debank[w].hdr.set
  /\ debank[w].c = item[w].id

\* C13: after a successful login the header's user_addr is exactly the
\* lowercased account address sent in the sign-challenge request and in the
\* login submission, its session_id is the one the login response returned
\* for that address, and the signature submitted is by the account's key
\* over exactly the challenge text returned for that address.
C13_HeaderMatchesLogin ==
  \A w \in Workers : LoggedIn(w) =>
    LET addr == hist[w][1].arg[1] IN
    /\ Is(w, 1, "sign_v2")
    /\ addr = Lower(Address(item[w].private_key))
    /\ hist[w][3].arg[1] = addr
    /\ hist[w][3].arg[2] = item[w].private_key
    /\ hist[w][3].arg[3] = TextFor(addr)
    /\ debank[w].hdr.user_addr = addr
    /\ debank[w].hdr.session_id = SidFor(addr)
    /\ debank[w].hdr.wallet_type = "metamask"
    /\ debank[w].hdr.is_verified

\* A login succeeded and the logged-in client issued its first can-mint query.
C13_Witness ==
  \E w \in Workers : LoggedIn(w) /\ Is(w, 5, "can_mint") /\ pc[w] = "canmint_wait"

\* ------------------------------------------------------------------ badge_list alone
\* The names the remote service may give a badge.
CatalogNames == { "a", "b" }

\* The badge lists badge_list() is applied to: any ids, any names, repeats.
CatalogInputs ==
  SeqsUpTo({ [id |-> i, name |-> n] : i \in 1..MaxBadges, n \in CatalogNames }, MaxCatalogLen)

CatalogInit ==
  /\ MainInit
  /\ vin \in { Response(200, "object", FALSE, "", Present(l)) : l \in CatalogInputs }
  /\ vout = <<>>

\* badge_list() on the response of its GET.
BuildCatalog ==
  /\ vout = <<>>
  /\ vout' = << badge_list([ok |-> TRUE, resp |-> vin]) >>
  /\ UNCHANGED << mainVars, vin >>

CatalogNext == BuildCatalog

CatalogSpec == CatalogInit /\ [][CatalogNext]_vars

\* C14: badge_list builds a mapping whose key set is exactly the set of ids
\* of the returned list, each key once, each mapped to a name the list
\* gives for that id; entries are merged only when the list repeats an id.
C14_CatalogKeys ==
  vout # <<>> =>
    LET l == vin.data.val
        d == vout[1].value
    IN
    /\ vout[1].tag = "return"
    /\ { d[i].id : i \in DOMAIN d } = { l[j].id : j \in DOMAIN l }
    /\ \A i, j \in DOMAIN d : d[i].id = d[j].id => i = j
    /\ \A i \in DOMAIN d : \E j \in DOMAIN l : l[j] = d[i]
    /\ (\A i, j \in DOMAIN l : l[i].id = l[j].id => i = j) => Len(d) = Len(l)

\* badge_list was applied to a list that repeats an id under two names
\* around another id.
C14_Witness ==
  /\ vout # <<>>
  /\ Len(vin.data.val) = 3
  /\ vin.data.val[1].id = vin.data.val[3].id
  /\ vin.data.val[1].name # vin.data.val[3].name
  /\ vin.data.val[2].id # vin.data.val[1].id

\* C15: no worker loop ever waits on an empty queue: when a loop performs
\* the dequeue after its emptiness test, the queue still holds a pair, and
\* no loop is blocked in q.get().
C15_NeverWaitsEmpty ==
  \A w \in Workers :
    /\ pc[w] # "blocked"
    /\ pc[w] = "get" => q # <<>>

\* A loop is about to dequeue the last pair while another loop, resumed from
\* a call, waits on the ready queue for its turn.
C15_Witness ==
  \E w, v \in Workers :
    /\ w # v
    /\ pc[w] = "get" /\ Len(q) = 1
    /\ pc[v] \in WaitStates /\ InReady(WTask(v))

\* A handler of worker loop w logged an error of the loop's current account:
\* the log line is the last event of the account.
AbandonedNow(w) ==
  /\ hist[w] # <<>>
  /\ hist[w][Len(hist[w])].k \in { "log.DebankError", "log.Error" }

C16_Safe ==
  /\ \A w \in Workers : AbandonedNow(w) => pc[w] \in { "loop", "get" }
  /\ \A i \in DOMAIN q : deq[q[i]] = 0
  /\ \A w, v \in Workers : (w # v /\ item[w].id # 0) => item[w].id # item[v].id

\* Nothing is added to an abandoned account's events: the next change is the
\* loop leaving the account (next pair dequeued, or the loop exits).
NoMoreRequests(w) ==
  AbandonedNow(w) =>
    \/ hist'[w] = hist[w]
    \/ hist'[w] = <<>> /\ item'[w].id # item[w].id

\* After main filled the queue, pairs only leave it, from the head.
OnlyDequeued == mainpc # "start" => (q' = q \/ (q # <<>> /\ q' = Tail(q)))

\* C16: once login, an eligibility check or a mint failed for an account, no
\* further request is issued for it (no retry, no remaining badge, no
\* re-login) and its pair is never put back on the queue.
C16_AbandonedForGood ==
  /\ []C16_Safe
  /\ [][OnlyDequeued /\ \A w \in Workers : NoMoreRequests(w)]_vars

\* The eligibility check of the first of two badges failed with pairs still
\* on the queue.
C16_Witness ==
  \E w \in Workers :
    /\ AbandonedNow(w)
    /\ Is(w, 5, "can_mint")
    /\ Len(BADGE_IDS) = 2 /\ hist[w][5].arg = << BADGE_IDS[1].id >>
    /\ q # <<>>

\* The last event of worker loop w's account is of kind kind about badge id.
LastIs(h, kind, id) ==
  /\ h # <<>>
  /\ h[Len(h)].k = kind
  /\ h[Len(h)].arg = << id >>

\* While a badge is being handled, the account's events hold one eligibility
\* query, the one for that badge.
C17_Safe ==
  \A w \in Workers :
    pc[w] \in { "canmint_wait", "mint_wait", "sleep_wait" } =>
      /\ bidx[w] \in DOMAIN BADGE_IDS
      /\ \A k \in DOMAIN hist[w] : Is(w, k, "can_mint") => k = 5
      /\ Is(w, 5, "can_mint") /\ hist[w][5].arg = << Badge(w).id >>

\* An eligibility query is issued for the next position of the catalog, from
\* the login or from the end of the previous badge's delay.
QueryStep(w) ==
  (pc'[w] = "canmint_wait" /\ pc[w] # "canmint_wait") =>
    /\ pc[w] \in { "submit_wait", "sleep_wait" }
    /\ bidx'[w] = bidx[w] + 1
    /\ bidx'[w] \in DOMAIN BADGE_IDS
    /\ LastIs(hist'[w], "can_mint", BADGE_IDS[bidx'[w]].id)
    /\ pc[w] = "submit_wait" => bidx[w] = 0
    /\ pc[w] = "sleep_wait" => LastIs(hist[w], "sleep", BADGE_IDS[bidx[w]].id)

\* The delay starts when the badge's query (and mint, if any) was answered.
DelayStep(w) ==
  (pc'[w] = "sleep_wait" /\ pc[w] # "sleep_wait") =>
    /\ pc[w] \in { "canmint_wait", "mint_wait" }
    /\ bidx'[w] = bidx[w]
    /\ LastIs(hist'[w], "sleep", Badge(w).id)

\* The for loop ends after the delay of the last badge only.
ForEnds(w) ==
  (pc[w] = "sleep_wait" /\ pc'[w] = "loop") => bidx[w] = Len(BADGE_IDS)

\* C17: for an account whose calls all succeed, every badge of the catalog
\* gets exactly one eligibility query, in mapping order, and the query (and
\* mint, if any) of a badge completes, followed by the delay, before the
\* query for the next badge is issued.
C17_CatalogOrder ==
  /\ [](C17_Safe /\ DistinctBadges)
  /\ [][\A w \in Workers : QueryStep(w) /\ DelayStep(w) /\ ForEnds(w)]_vars

\* The second badge of a catalog whose mapping order is not the id order is
\* queried.
C17_Witness ==
  \E w \in Workers :
    /\ pc[w] = "canmint_wait" /\ bidx[w] = 2
    /\ BADGE_IDS[1].id = 2 /\ BADGE_IDS[2].id = 1

\* The requests of login are issued by a client that has no header yet, and
\* the requests a logged-in client issues afterwards carry the header.
C18_Safe ==
  \A w \in Workers :
    /\ Is(w, 1, "sign_v2") => ~hist[w][1].hdr
    /\ Is(w, 3, "login_v2") => ~hist[w][3].hdr
    /\ LoggedIn(w) =>
         \A k \in DOMAIN hist[w] :
           (k > 4 /\ hist[w][k].k \in { "can_mint", "mint" }) => hist[w][k].hdr

\* The header changes only when login attaches it to a client without one.
HeaderSetOnce(w) ==
  (debank'[w].hdr # debank[w].hdr /\ debank'[w].c = debank[w].c) =>
    /\ ~debank[w].hdr.set
    /\ debank'[w].hdr.set
    /\ pc[w] = "submit_wait"

\* C18: a client's session header is set at most once, by its single login,
\* and never changed or removed afterwards: every later request of the
\* client carries it.
C18_HeaderSetOnce ==
  /\ []C18_Safe
  /\ [][\A w \in Workers : HeaderSetOnce(w)]_vars

\* A logged-in client has issued a can-mint query and a mint request, and a
\* second pair waits for the same loop.
C18_Witness ==
  \E w \in Workers :
    /\ LoggedIn(w) /\ Is(w, 8, "mint")
    /\ pc[w] = "sleep_wait"
    /\ q # <<>>

\* C19: no eligibility query and no mint request is issued by a client
\* without a session header: every can-mint and mint request of an account
\* comes after the account's login was answered successfully and the
\* header attached to its client.
C19_RequestsAfterLogin ==
  \A w \in Workers : \A k \in DOMAIN hist[w] :
    hist[w][k].k \in { "can_mint", "mint" } =>
      /\ k > 4
      /\ hist[w][k].hdr
      /\ Is(w, 3, "login_v2")
      /\ Is(w, 4, "response") /\ hist[w][4].arg = << 200, FALSE >>
      /\ debank[w].hdr.set
      /\ debank[w].c = item[w].id

\* A mint request is in flight for a logged-in account.
C19_Witness ==
  \E w \in Workers : Is(w, 8, "mint") /\ hist[w][8].hdr /\ pc[w] = "mint_wait"

\* Number of dequeues of the run so far.
Dequeued == nput - Len(q)

\* The queue holds the lines not yet dequeued, in file order, and the pairs
\* dequeued so far are those of the first lines of the file.
C20_Safe ==
  mainpc # "start" =>
    /\ q = [i \in 1..Len(q) |-> Dequeued + i]
    /\ \A a \in Accounts : deq[a] = IF a <= Dequeued THEN 1 ELSE 0
    /\ \A w \in Workers : item[w].id <= Dequeued

\* The k-th dequeue hands the pair of line k to one worker loop.
DequeueStep ==
  (mainpc # "start" /\ q' # q) =>
    \E w \in Workers :
      /\ item'[w].id = Dequeued + 1
      /\ item'[w] \in { Pair(Dequeued + 1, line) : line \in LineKinds }
      /\ pc'[w] = "from_key"
      /\ \A v \in Workers \ { w } : item'[v] = item[v]

\* C20: pairs are dequeued in input-file order: across all worker loops the
\* k-th dequeue of the run returns the pair built from the k-th line, so an
\* earlier line never starts processing after a later one.
C20_FileOrder ==
  /\ []C20_Safe
  /\ [][DequeueStep]_vars

\* The loop that did not take line 2 has just dequeued line 3.
C20_Witness ==
  \E w, v \in Workers :
    /\ w # v
    /\ item[w].id = 3 /\ pc[w] = "from_key"
    /\ item[v].id = 2

====
